---- MODULE Spec2Model ----
(***************************************************************************)
(* A model of youtube_no_si: the `si` tracking-parameter stripper          *)
(* (src/remove_si.rs), the retrying sender, the message handler and the    *)
(* update routing (src/bot.rs, src/bot/thank_react.rs), the token loader   *)
(* (src/token.rs), and the dispatch loop with the forced shutdown          *)
(* (src/bot.rs, src/main.rs).                                              *)
(*                                                                         *)
(* Text is modelled character by character: a string is a sequence of      *)
(* one-character strings.  Option<T> is a sequence of length at most one:  *)
(* None is <<>> and Some(x) is <<x>>.                                      *)
(***************************************************************************)
EXTENDS Integers, Sequences, FiniteSets, TLC

VARIABLES
    url,         \* the Url handed to url_without_si
    stripped,    \* Option<Url>: what url_without_si(url) returned
    again,       \* Option<Url>: url_without_si applied to the inner value of stripped
    strip_pc,    \* "input" | "stripped" | "again"
    send_pc,     \* position of send_message_retrying: "idle" | "loop" | "sleep" | "returned"
    send_i,      \* iterations of `for _ in 0..RETRY_LIMIT` started so far
    send_cur,    \* Option<error>: the Err in the local `result` while sleeping
    last_err,    \* Option<error>: the local `last_err`
    send_result, \* Option<Result>: what send_message_retrying returned
    sleep_left,  \* seconds left of tokio::time::sleep in the RetryAfter arm
    slept,       \* ghost: seconds slept since the last bot.send_message call
    attempts,    \* ghost: bot.send_message calls made
    delivered,   \* ghost: calls that returned Ok
    n_transient, \* ghost: calls that failed with Network or Io
    n_rate,      \* ghost: calls that failed with RetryAfter
    fatal_seen,  \* ghost: Option<error>: the non-retryable error an attempt returned
    update,      \* Option<Update>: the update dispatched last
    routed,      \* what the dispatcher did with each update, oldest first
    msg,         \* the Message handed to remove_si
    h_pc,        \* position of remove_si: "off" | "start" | "sending" | "done"
    extracted,   \* what message_url_iterator(&message) yielded
    sent,        \* the send_message_retrying calls made: [to, reply_to, text]
    h_result,    \* Option<Result>: what remove_si returned
    environ,     \* the process environment, in the order env::vars() yields it
    dotenv_file, \* the `.env` file: whether it is found, and its lines
    tok_pc,      \* position of main before the select: "off" | "start" | "loaded" | "spawned" | "failed"
    token,       \* Option: what load_token() came to
    main_pc,     \* the process: "off" | "select" | "returned"
    exit_by,     \* what made main return: "" | "error" | "bot" | "forced" | "timeout"
    fs_pc,       \* forced_shutdown: "first" | "second" | "forced" | "timeout"
    timer_left,  \* seconds left of sleep(FORCED_SHUTDOWN_TIMEOUT)
    sig_fs,      \* an interrupt is pending for the listener of forced_shutdown
    sig_dp,      \* an interrupt is pending for the Ctrl-C handler of the current dispatcher
    interrupts,  \* ghost: interrupts delivered to the process
    run_pc,      \* run_bot: "off" | "dispatching" | "caught" | "exited"
    built,       \* dispatchers built by run_bot so far
    disp_state,  \* state of the current dispatcher: "Idle" | "Running" | "ShuttingDown"
    worker,      \* the handler task of the current dispatcher: "none" | "busy" | "panicked"
    caught,      \* Option<payload>: the panic catch_unwind returned
    log,         \* the `panic` field of each "dispatcher panicked" event, oldest first
    inv          \* the concurrent remove_si invocations, one record each

strip_vars == <<url, stripped, again, strip_pc>>
send_vars == <<send_pc, send_i, send_cur, last_err, send_result, sleep_left, slept, attempts,
               delivered, n_transient, n_rate, fatal_seen>>
disp_vars == <<update, routed>>
hand_vars == <<msg, h_pc, extracted, sent, h_result>>
tok_vars == <<environ, dotenv_file, tok_pc, token>>
run_vars == <<main_pc, exit_by, fs_pc, timer_left, sig_fs, sig_dp, interrupts, run_pc, built,
              disp_state, worker, caught, log>>
par_vars == <<inv>>
sys_vars == <<tok_vars, run_vars, par_vars>>
ext_vars == <<hand_vars, sys_vars>>
vars == <<strip_vars, send_vars, disp_vars, ext_vars>>

None == <<>>
Some(x) == <<x>>
IsSome(o) == o # <<>>
Unwrap(o) == o[1]

(***************************************************************************)
(* Bounds of the model.                                                    *)
(***************************************************************************)
MaxPairs == 3        \* raw `&`-separated segments in an input query
MaxDelay == 2        \* largest RetryAfter delay, in seconds
MaxUpdates == 2      \* updates the dispatcher handles in one behaviour
MaxEntities == 2     \* entities of a message

(***************************************************************************)
(* Text helpers.                                                           *)
(***************************************************************************)
StartsWith(s, p) == Len(s) >= Len(p) /\ SubSeq(s, 1, Len(p)) = p

Contains(s, p) ==
    \E k \in 1..(Len(s) - Len(p) + 1) : SubSeq(s, k, k + Len(p) - 1) = p

\* index of the first occurrence of character c in s, 0 when there is none
IndexOf(s, c) ==
    IF \E k \in 1..Len(s) : s[k] = c
    THEN CHOOSE k \in 1..Len(s) : s[k] = c /\ \A j \in 1..(k - 1) : s[j] # c
    ELSE 0

RECURSIVE Join(_, _)
\* the segments of ss joined by the character sep
Join(ss, sep) ==
    IF Len(ss) = 0 THEN <<>>
    ELSE IF Len(ss) = 1 THEN ss[1]
    ELSE ss[1] \o <<sep>> \o Join(Tail(ss), sep)

(***************************************************************************)
(* The url crate, as url_without_si uses it.                               *)
(***************************************************************************)
HexDigits == {"0", "1", "2", "3", "4", "5", "6", "7", "8", "9",
              "A", "B", "C", "D", "E", "F", "a", "b", "c", "d", "e", "f"}

HexVal ==
    [c \in HexDigits |->
        CASE c = "0" -> 0 [] c = "1" -> 1 [] c = "2" -> 2 [] c = "3" -> 3
          [] c = "4" -> 4 [] c = "5" -> 5 [] c = "6" -> 6 [] c = "7" -> 7
          [] c = "8" -> 8 [] c = "9" -> 9
          [] c \in {"A", "a"} -> 10 [] c \in {"B", "b"} -> 11
          [] c \in {"C", "c"} -> 12 [] c \in {"D", "d"} -> 13
          [] c \in {"E", "e"} -> 14 [] c \in {"F", "f"} -> 15]

\* the ASCII characters a percent-escape of the modelled inputs can denote
ByteChar ==
    (32 :> " ") @@ (35 :> "#") @@ (37 :> "%") @@ (38 :> "&") @@ (43 :> "+")
    @@ (61 :> "=") @@ (65 :> "A") @@ (105 :> "i") @@ (115 :> "s")

RECURSIVE replace_plus(_)
\* form_urlencoded: `+` stands for a space
replace_plus(s) ==
    IF s = <<>> THEN <<>>
    ELSE <<IF Head(s) = "+" THEN " " ELSE Head(s)>> \o replace_plus(Tail(s))

RECURSIVE percent_decode(_)
\* `%XY` with two hex digits is the byte XY; any other `%` stands for itself
percent_decode(s) ==
    IF s = <<>> THEN <<>>
    ELSE IF Head(s) = "%" /\ Len(s) >= 3 /\ s[2] \in HexDigits /\ s[3] \in HexDigits
         THEN <<ByteChar[16 * HexVal[s[2]] + HexVal[s[3]]]>>
              \o percent_decode(SubSeq(s, 4, Len(s)))
         ELSE <<Head(s)>> \o percent_decode(Tail(s))

decode(s) == percent_decode(replace_plus(s))

RECURSIVE form_urlencoded_parse(_)
\* the (key, value) pairs of a query: split at `&`, empty segments skipped,
\* each segment split at its first `=`, both halves decoded
form_urlencoded_parse(input) ==
    IF input = <<>> THEN <<>>
    ELSE LET amp == IndexOf(input, "&")
             sequence == IF amp = 0 THEN input ELSE SubSeq(input, 1, amp - 1)
             rest == IF amp = 0 THEN <<>> ELSE SubSeq(input, amp + 1, Len(input))
             eq == IndexOf(sequence, "=")
             name == IF eq = 0 THEN sequence ELSE SubSeq(sequence, 1, eq - 1)
             value == IF eq = 0 THEN <<>> ELSE SubSeq(sequence, eq + 1, Len(sequence))
         IN  IF sequence = <<>> THEN form_urlencoded_parse(rest)
             ELSE <<[key |-> decode(name), value |-> decode(value)]>>
                  \o form_urlencoded_parse(rest)

\* Url::query_pairs: the pairs of the query, none when the Url has no query
query_pairs(u) ==
    form_urlencoded_parse(IF IsSome(u.query) THEN Unwrap(u.query) ELSE <<>>)

SpecialSchemes == {"http", "https", "ws", "wss", "ftp", "file"}

\* the percent-encode set of a query: QUERY, and `'` too for a special scheme
QueryEncodeSet(scheme) ==
    {" ", "\"", "#", "<", ">"} \cup (IF scheme \in SpecialSchemes THEN {"'"} ELSE {})

PercentEscape ==
    (" " :> <<"%", "2", "0">>) @@ ("\"" :> <<"%", "2", "2">>)
    @@ ("#" :> <<"%", "2", "3">>) @@ ("<" :> <<"%", "3", "C">>)
    @@ (">" :> <<"%", "3", "E">>) @@ ("'" :> <<"%", "2", "7">>)

RECURSIVE percent_encode(_, _)
percent_encode(s, set) ==
    IF s = <<>> THEN <<>>
    ELSE (IF Head(s) \in set THEN PercentEscape[Head(s)] ELSE <<Head(s)>>)
         \o percent_encode(Tail(s), set)

\* Url::set_query: None removes the query, Some(q) stores q percent-encoded;
\* scheme, host, path and fragment are kept
set_query(u, q) ==
    [u EXCEPT !.query =
        IF IsSome(q) THEN Some(percent_encode(Unwrap(q), QueryEncodeSet(u.scheme)))
        ELSE None]

(***************************************************************************)
(* src/remove_si.rs                                                        *)
(***************************************************************************)
YOUTUBE_DOMAINS == {"youtube.com", "www.youtube.com", "youtu.be"}

url_belongs_to_youtube(u) ==
    /\ IsSome(u.host)
    /\ Unwrap(u.host).kind = "Domain"
    /\ Unwrap(u.host).name \in YOUTUBE_DOMAINS

\* a check for `si=` anywhere in the query
url_has_si_Anywhere(u) ==
    IsSome(u.query) /\ Contains(Unwrap(u.query), <<"s", "i", "=">>)

url_has_si(u) ==
    IF ~IsSome(u.query) THEN FALSE
    ELSE LET query == Unwrap(u.query)
         IN  StartsWith(query, <<"s", "i", "=">>)
             \/ Contains(query, <<"&", "s", "i", "=">>)

\* .filter(|(key, _value)| key != "si")
FilterNotSi(pairs) == SelectSeq(pairs, LAMBDA p : p.key # <<"s", "i">>)

RECURSIVE WritePairs(_, _)
\* the loop building new_query: `&` when new_query is not empty, then
\* `{key}={value}`
WritePairs(pairs, new_query) ==
    IF pairs = <<>> THEN new_query
    ELSE WritePairs(Tail(pairs),
                    (IF new_query # <<>> THEN new_query \o <<"&">> ELSE new_query)
                    \o Head(pairs).key \o <<"=">> \o Head(pairs).value)

\* without the early return for an empty filtered iterator
remove_si_from_url_NoPeek(u) ==
    set_query(u, Some(WritePairs(FilterNotSi(query_pairs(u)), <<>>)))

remove_si_from_url(u) ==
    LET kept == FilterNotSi(query_pairs(u))
    IN  IF kept = <<>> THEN set_query(u, None)
        ELSE set_query(u, Some(WritePairs(kept, <<>>)))

\* `&&` in place of `||` in the guard
url_without_si_And(u) ==
    IF ~url_belongs_to_youtube(u) /\ ~url_has_si(u) THEN None
    ELSE Some(remove_si_from_url(u))

url_without_si(u) ==
    IF ~url_belongs_to_youtube(u) \/ ~url_has_si(u) THEN None
    ELSE Some(remove_si_from_url(u))

(***************************************************************************)
(* The Urls the stripper is run on: what Url::parse can produce (host of a  *)
(* special scheme in lower case, no character of the query encode set raw   *)
(* in the query).                                                          *)
(***************************************************************************)
Domain(n) == Some([kind |-> "Domain", name |-> n])

Bases ==
    { [scheme |-> "https", host |-> Domain("youtube.com"), path |-> "/watch",
       fragment |-> None],
      [scheme |-> "https", host |-> Domain("www.youtube.com"), path |-> "/watch",
       fragment |-> Some("t")],
      [scheme |-> "https", host |-> Domain("youtu.be"), path |-> "/0FwBHrVuMJc",
       fragment |-> None],
      [scheme |-> "https", host |-> Domain("notyoutube.com"), path |-> "/watch",
       fragment |-> None],
      [scheme |-> "https", host |-> Domain("you.tube"), path |-> "/watch",
       fragment |-> None],
      [scheme |-> "https", host |-> Some([kind |-> "Ipv4", name |-> "142.250.0.1"]),
       path |-> "/watch", fragment |-> None],
      [scheme |-> "mailto", host |-> None, path |-> "a@youtube.com",
       fragment |-> None] }

\* raw text of one `&`-separated segment of a query
Segments ==
    { <<"s", "i", "=", "a">>,                                 \* si=a
      <<"v", "=", "a">>,                                      \* v=a
      <<"p", "s", "i", "=", "a">>,                            \* psi=a
      <<"s", "i", "p", "=", "a">>,                            \* sip=a
      <<"v", "=", "s", "i">>,                                 \* v=si
      <<"s", "i">>,                                           \* si
      <<"%", "7", "3", "i", "=", "a">>,                       \* %73i=a
      <<"t", "=", "a", "+", "b">>,                            \* t=a+b
      <<"v", "=", "a", "%", "2", "6", "s", "i", "%", "3", "D", "b">>, \* v=a%26si%3Db
      <<"p">>,                                                \* p
      <<>> }                                                  \* (empty)

Queries ==
    {None} \cup
    UNION { { Some(Join(ss, "&")) : ss \in [1..n -> Segments] } : n \in 1..MaxPairs }

Urls ==
    { [scheme |-> b.scheme, host |-> b.host, path |-> b.path, query |-> q,
       fragment |-> b.fragment] : b \in Bases, q \in Queries }

NoUrl == [scheme |-> "", host |-> None, path |-> "", query |-> None, fragment |-> None]

StripIdle ==
    /\ url = NoUrl /\ stripped = None /\ again = None /\ strip_pc = "off"

\* url_without_si(url)
Strip ==
    /\ strip_pc = "input"
    /\ stripped' = url_without_si(url)
    /\ strip_pc' = "stripped"
    /\ UNCHANGED <<url, again, send_vars, disp_vars, ext_vars>>

\* url_without_si on the Url the first call returned
StripAgain ==
    /\ strip_pc = "stripped" /\ IsSome(stripped)
    /\ again' = url_without_si(Unwrap(stripped))
    /\ strip_pc' = "again"
    /\ UNCHANGED <<url, stripped, send_vars, disp_vars, ext_vars>>

(***************************************************************************)
(* src/bot.rs: send_message_retrying                                       *)
(***************************************************************************)
RETRY_LIMIT == 20

\* An error value.  `at` is the ordinal of the bot.send_message call that
\* returned it, so that two errors of the same kind are told apart.
NoError == [kind |-> "none", delay |-> 0, at |-> 0]
Ok == [ok |-> TRUE, err |-> NoError]
Err(e) == [ok |-> FALSE, err |-> e]

TransientKinds == {"Network", "Io"}
OtherKinds == {"Api", "MigrateToChatId", "InvalidJson"}

\* what the n-th bot.send_message(..).await can return
Outcomes(n) ==
    {Ok}
    \cup { Err([kind |-> k, delay |-> 0, at |-> n]) : k \in TransientKinds \cup OtherKinds }
    \cup { Err([kind |-> "RetryAfter", delay |-> d, at |-> n]) : d \in 1..MaxDelay }

\* a match that sends every error but RetryAfter to the first arm
IsTransient_CatchAll(e) == e.kind # "RetryAfter"

\* Err(ref e @ (RequestError::Network(_) | RequestError::Io(_)))
IsTransient(e) == e.kind \in {"Network", "Io"}

\* Err(ref e @ RequestError::RetryAfter(secs))
IsRetryAfter(e) == e.kind = "RetryAfter"

\* the inclusive range `0..=RETRY_LIMIT`
LoopRuns_Inclusive(i) == i <= RETRY_LIMIT

\* `for _ in 0..RETRY_LIMIT`: whether iteration number i (from 0) runs
LoopRuns(i) == i < RETRY_LIMIT

\* last_err.map(Err).unwrap_or(Ok(()))
AfterLoop(le) == IF IsSome(le) THEN Err(Unwrap(le)) ELSE Ok

SendIdle ==
    /\ send_pc = "idle" /\ send_i = 0 /\ send_cur = None /\ last_err = None
    /\ send_result = None /\ sleep_left = 0 /\ slept = 0 /\ attempts = 0
    /\ delivered = 0 /\ n_transient = 0 /\ n_rate = 0 /\ fatal_seen = None

\* the state on entry to the loop, after `let mut last_err = None`
SendStart ==
    /\ send_pc = "loop" /\ send_i = 0 /\ send_cur = None /\ last_err = None
    /\ send_result = None /\ sleep_left = 0 /\ slept = 0 /\ attempts = 0
    /\ delivered = 0 /\ n_transient = 0 /\ n_rate = 0 /\ fatal_seen = None

\* the sleep left out (the future built and dropped, never awaited)
SleepDuration_NotAwaited(e) == 0

\* tokio::time::sleep(secs.duration()): how long the RetryAfter arm sleeps
SleepDuration(e) == e.delay

\* the successful call handled like a failed one: no break
ArmOk_NoBreak ==
    /\ send_i' = send_i + 1
    /\ send_pc' = IF LoopRuns(send_i + 1) THEN "loop" ELSE "returned"
    /\ send_result' = IF LoopRuns(send_i + 1) THEN send_result
                      ELSE Some(AfterLoop(last_err))
    /\ UNCHANGED <<send_cur, last_err, sleep_left>>

\* `Ok(_) => break`, and the return after the loop
ArmOk ==
    /\ send_pc' = "returned"
    /\ send_result' = Some(AfterLoop(last_err))
    /\ UNCHANGED <<send_i, send_cur, last_err, sleep_left>>

\* last_err written only while it is None (the first error kept)
EndIteration_KeepFirst(e) ==
    /\ last_err' = IF IsSome(last_err) THEN last_err ELSE Some(e)
    /\ send_cur' = None
    /\ IF LoopRuns(send_i + 1)
       THEN send_pc' = "loop" /\ send_result' = send_result
       ELSE send_pc' = "returned" /\ send_result' = Some(AfterLoop(last_err'))

\* the end of one iteration that did not leave the loop: `last_err =
\* result.err()`, then the next iteration or, the range exhausted, the return
EndIteration(e) ==
    /\ last_err' = Some(e)
    /\ send_cur' = None
    /\ IF LoopRuns(send_i + 1)
       THEN send_pc' = "loop" /\ send_result' = send_result
       ELSE send_pc' = "returned" /\ send_result' = Some(AfterLoop(Some(e)))

\* one iteration up to its first await after the call: bot.send_message
\* returns `result`, and the match on it.  The ghost counters record what the
\* call returned, whatever arm the match takes.
SendAttempt ==
    /\ send_pc = "loop" /\ LoopRuns(send_i)
    /\ \E result \in Outcomes(attempts + 1) :
        /\ attempts' = attempts + 1
        /\ slept' = 0
        /\ delivered' = IF result.ok THEN delivered + 1 ELSE delivered
        /\ n_transient' = IF result.err.kind \in {"Network", "Io"}
                          THEN n_transient + 1 ELSE n_transient
        /\ n_rate' = IF result.err.kind = "RetryAfter" THEN n_rate + 1 ELSE n_rate
        /\ fatal_seen' = IF result.err.kind \in OtherKinds /\ fatal_seen = None
                         THEN Some(result.err) ELSE fatal_seen
        /\ IF result.ok
           THEN ArmOk
           ELSE IF IsTransient(result.err)
           THEN /\ send_i' = send_i + 1
                /\ EndIteration(result.err)
                /\ UNCHANGED sleep_left
           ELSE IF IsRetryAfter(result.err)
           THEN \* tokio::time::sleep(secs.duration()).await
                /\ send_pc' = "sleep"
                /\ send_cur' = Some(result.err)
                /\ sleep_left' = SleepDuration(result.err)
                /\ UNCHANGED <<send_i, last_err, send_result>>
           ELSE \* Err(e) => return Err(e.into())
                /\ send_pc' = "returned"
                /\ send_result' = Some(Err(result.err))
                /\ UNCHANGED <<send_i, send_cur, last_err, sleep_left>>
    /\ UNCHANGED <<strip_vars, disp_vars, ext_vars>>

\* one second of the sleep passes
SleepTick ==
    /\ send_pc = "sleep" /\ sleep_left > 0
    /\ sleep_left' = sleep_left - 1
    /\ slept' = slept + 1
    /\ UNCHANGED <<send_pc, send_i, send_cur, last_err, send_result, attempts,
                   delivered, n_transient, n_rate, fatal_seen>>
    /\ UNCHANGED <<strip_vars, disp_vars, ext_vars>>

\* the sleep is over: the rest of the iteration
SleepDone ==
    /\ send_pc = "sleep" /\ sleep_left = 0
    /\ send_i' = send_i + 1
    /\ EndIteration(Unwrap(send_cur))
    /\ UNCHANGED <<sleep_left, slept, attempts, delivered, n_transient, n_rate,
                   fatal_seen>>
    /\ UNCHANGED <<strip_vars, disp_vars, ext_vars>>

(***************************************************************************)
(* src/bot.rs: schema; src/bot/thank_react.rs: thank_react_filter          *)
(***************************************************************************)
\* the bot's own identity (teloxide's Me)
me == [id |-> "bot"]

UserIds == {"bot", "alice"}

\* Message::reply_to_message(): None, or a message whose `from` is None or a user
ReplyRefs == {None} \cup { Some([from |-> f]) : f \in {None} \cup { Some([id |-> i]) : i \in UserIds } }

MessageIds == {"m1", "m2"}

\* an inbound update: its kind and the message it carries
Updates ==
    { [kind |-> k, message |-> [id |-> i, reply_to_message |-> r]] :
        k \in {"Message", "EditedMessage"}, i \in MessageIds, r \in ReplyRefs }

thank_react_filter(bot_me, message) ==
    /\ IsSome(message.reply_to_message)
    /\ LET origin == Unwrap(message.reply_to_message)
       IN  /\ IsSome(origin.from)
           /\ Unwrap(origin.from).id = bot_me.id

\* Update::filter_message().endpoint(remove_si), and the dispatcher's
\* default_handler for an update no branch takes: the handler that runs
schema(u) ==
    IF u.kind = "Message" THEN "remove_si" ELSE "default_handler"

DispIdle == update = None /\ routed = <<>>

\* the dispatcher takes one update from the stream and runs its handler
Dispatch ==
    /\ Len(routed) < MaxUpdates
    /\ \E u \in Updates :
        /\ update' = Some(u)
        /\ routed' = Append(routed, [update |-> u, handler |-> schema(u)])
    /\ UNCHANGED <<strip_vars, send_vars, ext_vars>>

(***************************************************************************)
(* src/bot.rs: try_parse_url, message_url_iterator, remove_si              *)
(*                                                                         *)
(* A message text is a sequence of units, each standing for a run of       *)
(* bytes: a scheme with its `://`, a host or a word, a path, a query with  *)
(* its `?`, a space.  Entity offsets and lengths count units.              *)
(***************************************************************************)
Sch(v) == [t |-> "scheme", v |-> v, q |-> <<>>]
Hst(v) == [t |-> "host", v |-> v, q |-> <<>>]
Pth(v) == [t |-> "path", v |-> v, q |-> <<>>]
Qry(q) == [t |-> "query", v |-> "?", q |-> q]
Spc == [t |-> "space", v |-> " ", q |-> <<>>]

\* what may follow the host of a URL: nothing, a path, a query, or both
TailShape(r) ==
    \/ r = <<>>
    \/ Len(r) = 1 /\ r[1].t \in {"path", "query"}
    \/ Len(r) = 2 /\ r[1].t = "path" /\ r[2].t = "query"

ParseOk(u) == [ok |-> TRUE, url |-> u, err |-> "none"]
ParseErr(e) == [ok |-> FALSE, url |-> NoUrl, err |-> e]

\* Url::parse on the text shapes the modelled messages hold: a text that does
\* not begin with a scheme is a relative URL without a base; a scheme alone has
\* an empty host; `https://https://` has the host `https`, an empty port and the
\* path `//`; a space right after the host is an invalid host character; a
\* missing path is `/`
UrlParse(s) ==
    CASE s = <<>> -> ParseErr("RelativeUrlWithoutBase")
      [] s # <<>> /\ s[1].t = "host" -> ParseErr("RelativeUrlWithoutBase")
      [] Len(s) = 1 /\ s[1].t = "scheme" -> ParseErr("EmptyHost")
      [] Len(s) >= 3 /\ s[1].t = "scheme" /\ s[2].t = "host" /\ s[3].t = "space"
            -> ParseErr("InvalidDomainCharacter")
      [] Len(s) = 2 /\ s[1].t = "scheme" /\ s[2].t = "scheme"
            -> ParseOk([scheme |-> s[1].v, host |-> Domain(s[2].v), path |-> "//",
                        query |-> None, fragment |-> None])
      [] Len(s) >= 2 /\ s[1].t = "scheme" /\ s[2].t = "host"
         /\ TailShape(SubSeq(s, 3, Len(s)))
            -> LET r == SubSeq(s, 3, Len(s))
               IN  ParseOk([scheme |-> s[1].v,
                            host |-> Domain(s[2].v),
                            path |-> IF r # <<>> /\ r[1].t = "path" THEN r[1].v ELSE "/",
                            query |-> IF r # <<>> /\ r[Len(r)].t = "query"
                                      THEN Some(r[Len(r)].q) ELSE None,
                            fragment |-> None])

\* without the second parse with `https://` in front
try_parse_url_NoRetry(s) ==
    IF UrlParse(s).ok THEN Some(UrlParse(s).url) ELSE None

try_parse_url(s) ==
    LET first == UrlParse(s)
    IN  IF first.ok THEN Some(first.url)
        ELSE IF first.err = "RelativeUrlWithoutBase"
        THEN LET second == UrlParse(<<Sch("https")>> \o s)
             IN  IF second.ok THEN Some(second.url) ELSE None
        ELSE None

\* text.get(a..b): None when the range does not lie within the text
Get(text, a, b) ==
    IF a <= b /\ b <= Len(text) THEN Some(SubSeq(text, a + 1, b)) ELSE None

\* the closure of filter_map: the Url of one entity, if it has one
EntityUrl(text, entity) ==
    CASE entity.kind = "Url" ->
            LET slice == Get(text, entity.offset, entity.offset + entity.length)
            IN  IF IsSome(slice) THEN try_parse_url(Unwrap(slice)) ELSE None
      [] entity.kind = "TextLink" -> Some(entity.url)
      [] OTHER -> None

RECURSIVE FilterMapUrls(_, _)
FilterMapUrls(text, entities) ==
    IF entities = <<>> THEN <<>>
    ELSE EntityUrl(text, Head(entities)) \o FilterMapUrls(text, Tail(entities))

RECURSIVE MapWhileUrls(_, _)
\* an iterator that ends at the first entity without a Url
MapWhileUrls(text, entities) ==
    IF entities = <<>> \/ EntityUrl(text, Head(entities)) = None THEN <<>>
    ELSE EntityUrl(text, Head(entities)) \o MapWhileUrls(text, Tail(entities))

message_url_iterator_MapWhile(m) ==
    IF ~IsSome(m.text) \/ ~IsSome(m.entities) THEN <<>>
    ELSE MapWhileUrls(Unwrap(m.text), Unwrap(m.entities))

message_url_iterator(m) ==
    IF ~IsSome(m.text) THEN <<>>
    ELSE IF ~IsSome(m.entities) THEN <<>>
    ELSE FilterMapUrls(Unwrap(m.text), Unwrap(m.entities))

RECURSIVE FilterMapStrip(_)
\* urls.filter_map(remove_si::url_without_si)
FilterMapStrip(urls) ==
    IF urls = <<>> THEN <<>>
    ELSE url_without_si(Head(urls)) \o FilterMapStrip(Tail(urls))

\* Url::as_str: the serialization, piece by piece
as_str(u) ==
    <<u.scheme>>
    \o (IF IsSome(u.host) THEN <<"://", Unwrap(u.host).name>> ELSE <<":">>)
    \o <<u.path>>
    \o (IF IsSome(u.query) THEN <<"?">> \o Unwrap(u.query) ELSE <<>>)
    \o (IF IsSome(u.fragment) THEN <<"#", Unwrap(u.fragment)>> ELSE <<>>)

RECURSIVE PushUrls(_, _)
\* the loop pushing each url and a line feed onto response
PushUrls(response, urls) ==
    IF urls = <<>> THEN response
    ELSE PushUrls(response \o as_str(Head(urls)) \o <<"\n">>, Tail(urls))

\* the plural header for any number of urls
Header_AlwaysPlural(filtered) == <<"The links without tracking:", "\n">>

\* the header: plural when a url is left after the first
Header(filtered) ==
    IF Len(filtered) > 1 THEN <<"The links without tracking:", "\n">>
    ELSE <<"The link without tracking:", "\n">>

\* without the early return when no url is left
Response_NoEarlyReturn(filtered) ==
    Some(PushUrls(Header(filtered), filtered))

\* the text remove_si sends: None when it returns before sending
Response(filtered) ==
    IF filtered = <<>> THEN None
    ELSE Some(PushUrls(Header(filtered), filtered))

(***************************************************************************)
(* The messages remove_si is run on.                                       *)
(***************************************************************************)
MessageText ==
    << Hst("see"), Spc, Hst("youtu.be"), Pth("/x"), Qry(<<"s", "i", "=", "a">>), Spc,
       Sch("https"), Hst("www.youtube.com"), Pth("/watch"),
       Qry(<<"s", "i", "=", "a", "&", "v", "=", "a">>) >>

\* the slices whose parse UrlParse models
Vetted(slice) ==
    /\ slice # <<>>
    /\ \/ slice[1].t = "host"
          /\ (TailShape(Tail(slice)) \/ (Len(slice) >= 2 /\ slice[2].t = "space"))
       \/ Len(slice) = 1 /\ slice[1].t = "scheme"
       \/ Len(slice) >= 2 /\ slice[1].t = "scheme" /\ slice[2].t = "host"
          /\ (TailShape(SubSeq(slice, 3, Len(slice)))
              \/ (Len(slice) >= 3 /\ slice[3].t = "space"))

Entity(k, o, l, u) == [kind |-> k, offset |-> o, length |-> l, url |-> u]

LinkUrls ==
    { [scheme |-> "https", host |-> Domain("youtu.be"), path |-> "/y",
       query |-> Some(<<"t", "=", "a", "&", "s", "i", "=", "a">>), fragment |-> None],
      [scheme |-> "https", host |-> Domain("example.org"), path |-> "/meow",
       query |-> Some(<<"s", "i", "=", "a">>), fragment |-> None] }

\* the entities a message over MessageText may carry: Url entities whose slice
\* is out of bounds or of a shape UrlParse models, text links, and a Bold
EntityCandidates ==
    { Entity("Url", o, l, NoUrl) : o \in 0..Len(MessageText), l \in 1..4 }
    \cup { Entity("TextLink", 0, 1, u) : u \in LinkUrls }
    \cup { Entity("Bold", 0, 1, NoUrl) }

Entities ==
    { e \in EntityCandidates :
        e.kind = "Url" /\ IsSome(Get(MessageText, e.offset, e.offset + e.length))
        => Vetted(Unwrap(Get(MessageText, e.offset, e.offset + e.length))) }

Messages ==
    { [chat |-> "c1", id |-> "m1", text |-> None, entities |-> None] }
    \cup { [chat |-> c, id |-> "m2", text |-> Some(MessageText), entities |-> Some(es)] :
             c \in {"c1", "c2"},
             es \in UNION { [1..n -> Entities] : n \in 0..MaxEntities } }

NoMessage == [chat |-> "", id |-> "", text |-> None, entities |-> None]

HandIdle ==
    /\ msg = NoMessage /\ h_pc = "off" /\ extracted = <<>> /\ sent = <<>>
    /\ h_result = None

\* remove_si up to its await: the urls, the response, the call of
\* send_message_retrying; or the early return when no url is left
HandleMessage ==
    /\ h_pc = "start"
    /\ LET chat_id == msg.chat
           urls == message_url_iterator(msg)
           response == Response(FilterMapStrip(urls))
       IN  /\ extracted' = urls
           /\ IF IsSome(response)
              THEN /\ sent' = Append(sent, [to |-> chat_id, reply_to |-> msg.id,
                                            text |-> Unwrap(response)])
                   /\ h_pc' = "sending"
                   /\ h_result' = h_result
              ELSE /\ sent' = sent
                   /\ h_pc' = "done"
                   /\ h_result' = Some(Ok)
    /\ UNCHANGED <<msg, strip_vars, send_vars, disp_vars, sys_vars>>

\* send_message_retrying(..).await? returns: its error is remove_si's error
HandleSendReturns ==
    /\ h_pc = "sending"
    /\ \E r \in Outcomes(1) :
        /\ h_result' = Some(r)
        /\ h_pc' = "done"
    /\ UNCHANGED <<msg, extracted, sent, strip_vars, send_vars, disp_vars, sys_vars>>

(***************************************************************************)
(* src/token.rs: load_token, and the start of main (src/main.rs)           *)
(***************************************************************************)
TOKEN_KEY == "TELEGRAM_BOT_TOKEN"

\* one variable of the environment; `unicode` is whether key and value are
\* valid Unicode (env::vars() unwraps OsString::into_string on both)
EnvVar(k, v, u) == [key |-> k, value |-> v, unicode |-> u]

\* one item of dotenvy's iterator: Ok((key, value)) or Err(LineParse)
LineOk(k, v) == [ok |-> TRUE, key |-> k, value |-> v]
LineErr == [ok |-> FALSE, key |-> "", value |-> ""]

\* what load_token() comes to: Ok(token), Err(LoadTokenError) or a panic
TokenOk(v) == [kind |-> "Ok", value |-> v]
TokenErr(e) == [kind |-> "Err", value |-> e]
TokenPanic == [kind |-> "Panic", value |-> "unwrap on Err"]

\* env::vars().find_map(|(key, value)| (key == TOKEN_KEY).then_some(value)):
\* Vars::next panics on the first variable that is not valid Unicode
RECURSIVE EnvFindMap(_)
EnvFindMap(vs) ==
    IF vs = <<>> THEN [kind |-> "None", value |-> ""]
    ELSE IF ~Head(vs).unicode THEN TokenPanic
    ELSE IF Head(vs).key = TOKEN_KEY THEN [kind |-> "Some", value |-> Head(vs).value]
    ELSE EnvFindMap(Tail(vs))

\* impl From<dotenvy::Error> for LoadTokenError
FromDotenvy(not_found) == IF not_found THEN "NotFound" ELSE "DotEnv"

\* dotenv_file.find_map(..): the first line that fails to parse, or the first
\* line of the key, whichever comes first; None at the end of the file
RECURSIVE FileFindMap(_)
FileFindMap(ls) ==
    IF ls = <<>> THEN None
    ELSE IF ~Head(ls).ok THEN Some(TokenErr(FromDotenvy(FALSE)))
    ELSE IF Head(ls).key = TOKEN_KEY THEN Some(TokenOk(Head(ls).value))
    ELSE FileFindMap(Tail(ls))

load_token(env, file) ==
    LET maybe_token == EnvFindMap(env)
    IN  IF maybe_token.kind = "Panic" THEN TokenPanic
        ELSE IF maybe_token.kind = "Some" THEN TokenOk(maybe_token.value)
        ELSE IF file.found = "missing" THEN TokenErr(FromDotenvy(TRUE))
        ELSE IF file.found = "unreadable" THEN TokenErr(FromDotenvy(FALSE))
        ELSE LET in_file == FileFindMap(file.lines)
             IN  IF IsSome(in_file) THEN Unwrap(in_file) ELSE TokenErr("NotFound")

MaxVars == 2         \* variables of the environment
MaxLines == 2        \* lines of the `.env` file

EnvVars ==
    { EnvVar(TOKEN_KEY, "t-env", TRUE), EnvVar("RUST_LOG", "info", TRUE),
      EnvVar("LC_NAME", "", FALSE) }

\* environments name a variable once
Environments ==
    { e \in UNION { [1..n -> EnvVars] : n \in 0..MaxVars } :
        \A i \in 1..Len(e), j \in 1..Len(e) : i # j => e[i].key # e[j].key }

FileLines == { LineOk(TOKEN_KEY, "t-file"), LineOk("RUST_LOG", "debug"), LineErr }

DotenvFiles ==
    { [found |-> f, lines |-> <<>>] : f \in {"missing", "unreadable"} }
    \cup { [found |-> "found", lines |-> ls] :
             ls \in UNION { [1..n -> FileLines] : n \in 0..MaxLines } }

NoFile == [found |-> "missing", lines |-> <<>>]

TokIdle == environ = <<>> /\ dotenv_file = NoFile /\ tok_pc = "off" /\ token = None

FORCED_SHUTDOWN_TIMEOUT == 10

RunIdle ==
    /\ main_pc = "off" /\ exit_by = "" /\ fs_pc = "first"
    /\ timer_left = FORCED_SHUTDOWN_TIMEOUT /\ sig_fs = FALSE /\ sig_dp = FALSE
    /\ interrupts = 0 /\ run_pc = "off" /\ built = 0 /\ disp_state = "Idle"
    /\ worker = "none" /\ caught = None /\ log = <<>>

ParIdle == inv = <<>>

SysIdle == TokIdle /\ RunIdle /\ ParIdle

\* run_bot up to its first dispatch(): Bot::new, the first Dispatcher built
RunBotStarts ==
    /\ run_pc' = "dispatching" /\ built' = 1 /\ disp_state' = "Running"
    /\ UNCHANGED <<worker, caught, log, sig_dp>>

\* `load_token()` in main
LoadToken ==
    /\ tok_pc = "start"
    /\ token' = Some(load_token(environ, dotenv_file))
    /\ tok_pc' = "loaded"
    /\ UNCHANGED <<environ, dotenv_file, run_vars, par_vars, strip_vars, send_vars,
                   disp_vars, hand_vars>>

\* `?` on Err, or the panic unwinding out of main: the process ends
MainFails ==
    /\ tok_pc = "loaded" /\ Unwrap(token).kind # "Ok"
    /\ tok_pc' = "failed"
    /\ main_pc' = "returned" /\ exit_by' = "error"
    /\ UNCHANGED <<environ, dotenv_file, token, fs_pc, timer_left, sig_fs, sig_dp, interrupts,
                   run_pc, built, disp_state, worker, caught, log, par_vars,
                   strip_vars, send_vars, disp_vars, hand_vars>>

\* tokio::spawn(run_bot(token)) and the first poll of the select
MainSpawns ==
    /\ tok_pc = "loaded" /\ Unwrap(token).kind = "Ok"
    /\ tok_pc' = "spawned"
    /\ main_pc' = "select"
    /\ RunBotStarts
    /\ UNCHANGED <<environ, dotenv_file, token, exit_by, fs_pc, timer_left, sig_fs, interrupts,
                   par_vars, strip_vars, send_vars, disp_vars, hand_vars>>

(***************************************************************************)
(* src/main.rs: main, forced_shutdown; src/bot.rs: run_bot;                *)
(* src/utils.rs: downcast_panic                                            *)
(***************************************************************************)
MaxPanics == 2       \* panics escaping dispatch() in one behaviour
MaxInterrupts == 2   \* interrupts delivered to the process

\* a panic payload: Box<dyn Any + Send> holding a &str, a String or another type
Payload(ty, text) == [type |-> ty, text |-> text]

PanicPayloads ==
    { Payload("&str", "TX is dead"), Payload("String", "Failed to wait for a worker."),
      Payload("other", "") }

downcast_panic(panic) ==
    IF panic.type = "&str" THEN Some(panic.text)
    ELSE IF panic.type = "String" THEN Some(panic.text)
    ELSE None

\* Option<&str>::unwrap_or_default
unwrap_or_default(o) == IF IsSome(o) THEN Unwrap(o) ELSE ""

Alive == main_pc = "select"

\* an interrupt reaches the process: every registered listener is notified
Interrupt ==
    /\ Alive /\ interrupts < MaxInterrupts
    /\ interrupts' = interrupts + 1
    /\ sig_fs' = (fs_pc \in {"first", "second"})
    /\ sig_dp' = TRUE
    /\ UNCHANGED <<main_pc, exit_by, fs_pc, timer_left, run_pc, built, disp_state, worker,
                   caught, log, tok_vars, par_vars, strip_vars, send_vars,
                   disp_vars, hand_vars>>

\* forced_shutdown: the first ctrl_c().await returns; the select of the
\* second ctrl_c() and sleep(FORCED_SHUTDOWN_TIMEOUT) starts
FirstInterrupt ==
    /\ Alive /\ fs_pc = "first" /\ sig_fs
    /\ fs_pc' = "second" /\ sig_fs' = FALSE
    /\ timer_left' = FORCED_SHUTDOWN_TIMEOUT
    /\ UNCHANGED <<main_pc, exit_by, sig_dp, interrupts, run_pc, built, disp_state, worker,
                   caught, log, tok_vars, par_vars, strip_vars, send_vars,
                   disp_vars, hand_vars>>

\* forced_shutdown: the arm `res = tokio::signal::ctrl_c()`
SecondInterrupt ==
    /\ Alive /\ fs_pc = "second" /\ sig_fs
    /\ fs_pc' = "forced" /\ sig_fs' = FALSE
    /\ UNCHANGED <<main_pc, exit_by, timer_left, sig_dp, interrupts, run_pc, built, disp_state,
                   worker, caught, log, tok_vars, par_vars, strip_vars, send_vars,
                   disp_vars, hand_vars>>

\* a second of sleep(FORCED_SHUTDOWN_TIMEOUT) passes
TimerTick ==
    /\ Alive /\ fs_pc = "second" /\ timer_left > 0
    /\ timer_left' = timer_left - 1
    /\ UNCHANGED <<main_pc, exit_by, fs_pc, sig_fs, sig_dp, interrupts, run_pc, built,
                   disp_state, worker, caught, log, tok_vars, par_vars, strip_vars,
                   send_vars, disp_vars, hand_vars>>

\* the sleep is awaited again and again, and never ends forced_shutdown
TimeoutExpires_Rearm ==
    /\ Alive /\ fs_pc = "second" /\ timer_left = 0
    /\ timer_left' = FORCED_SHUTDOWN_TIMEOUT
    /\ UNCHANGED <<main_pc, exit_by, fs_pc, sig_fs, sig_dp, interrupts, run_pc, built,
                   disp_state, worker, caught, log, tok_vars, par_vars, strip_vars,
                   send_vars, disp_vars, hand_vars>>

\* forced_shutdown: the arm `_ = tokio::time::sleep(FORCED_SHUTDOWN_TIMEOUT)`
TimeoutExpires ==
    /\ Alive /\ fs_pc = "second" /\ timer_left = 0
    /\ fs_pc' = "timeout"
    /\ UNCHANGED <<main_pc, exit_by, timer_left, sig_fs, sig_dp, interrupts, run_pc, built,
                   disp_state, worker, caught, log, tok_vars, par_vars, strip_vars,
                   send_vars, disp_vars, hand_vars>>

\* the select of main completes on the finished bot task or on the finished
\* forced_shutdown; main returns Ok(()) and the runtime drops every task
MainReturns ==
    /\ Alive
    /\ \E by \in {"bot", "forced", "timeout"} :
        /\ by = "bot" => run_pc = "exited"
        /\ by # "bot" => fs_pc = by
        /\ exit_by' = by
    /\ main_pc' = "returned"
    /\ UNCHANGED <<fs_pc, timer_left, sig_fs, sig_dp, interrupts, run_pc, built, disp_state,
                   worker, caught, log, tok_vars, par_vars, strip_vars, send_vars,
                   disp_vars, hand_vars>>

\* the Ctrl-C handler task of the current dispatcher (enable_ctrlc_handler):
\* a running dispatcher starts shutting down, otherwise the signal is ignored
CtrlCHandler ==
    /\ Alive /\ sig_dp
    /\ sig_dp' = FALSE
    /\ disp_state' = IF disp_state = "Running" THEN "ShuttingDown" ELSE disp_state
    /\ UNCHANGED <<main_pc, exit_by, fs_pc, timer_left, sig_fs, interrupts, run_pc, built,
                   worker, caught, log, tok_vars, par_vars, strip_vars, send_vars,
                   disp_vars, hand_vars>>

\* dispatch(): an update is handed to the handler (schema)
UpdateArrives ==
    /\ Alive /\ run_pc = "dispatching" /\ disp_state = "Running"
    /\ worker = "none"
    /\ worker' = "busy"
    /\ UNCHANGED <<main_pc, exit_by, fs_pc, timer_left, sig_fs, sig_dp, interrupts, run_pc,
                   built, disp_state, caught, log, tok_vars, par_vars, strip_vars, send_vars,
                   disp_vars, hand_vars>>

\* the handler in flight returns
HandlerCompletes ==
    /\ Alive /\ run_pc = "dispatching" /\ worker = "busy"
    /\ worker' = "none"
    /\ UNCHANGED <<main_pc, exit_by, fs_pc, timer_left, sig_fs, sig_dp, interrupts, run_pc,
                   built, disp_state, caught, log, tok_vars, par_vars, strip_vars,
                   send_vars, disp_vars, hand_vars>>

\* dispatch() unwinds: catch_unwind returns Err(e)
DispatchPanics ==
    /\ Alive /\ run_pc = "dispatching" /\ built <= MaxPanics
    /\ \E e \in PanicPayloads : caught' = Some(e)
    /\ run_pc' = "caught"
    /\ UNCHANGED <<main_pc, exit_by, fs_pc, timer_left, sig_fs, sig_dp, interrupts, built,
                   disp_state, worker, log, tok_vars, par_vars, strip_vars,
                   send_vars, disp_vars, hand_vars>>

\* the loop is left on a panic, as on a normal return
RestartDispatcher_Break ==
    /\ Alive /\ run_pc = "caught"
    /\ log' = Append(log, unwrap_or_default(downcast_panic(Unwrap(caught))))
    /\ caught' = None
    /\ run_pc' = "exited"
    /\ UNCHANGED <<main_pc, exit_by, fs_pc, timer_left, sig_fs, sig_dp, interrupts, built,
                   disp_state, worker, tok_vars, par_vars, strip_vars, send_vars,
                   disp_vars, hand_vars>>

\* run_bot after catch_unwind returned Err(e): the event is logged and the
\* next iteration builds a Dispatcher (with its own Ctrl-C handler, state and
\* workers) and awaits its dispatch()
RestartDispatcher ==
    /\ Alive /\ run_pc = "caught"
    /\ log' = Append(log, unwrap_or_default(downcast_panic(Unwrap(caught))))
    /\ caught' = None
    /\ built' = built + 1
    /\ disp_state' = "Running" /\ worker' = "none" /\ sig_dp' = FALSE
    /\ run_pc' = "dispatching"
    /\ UNCHANGED <<main_pc, exit_by, fs_pc, timer_left, sig_fs, interrupts,
                   tok_vars, par_vars, strip_vars, send_vars, disp_vars, hand_vars>>

\* dispatch() returns: the dispatcher was shutting down and no handler is in
\* flight; catch_unwind returns Ok and run_bot breaks out of its loop
DispatchReturns ==
    /\ Alive /\ run_pc = "dispatching" /\ disp_state = "ShuttingDown" /\ worker = "none"
    /\ disp_state' = "Idle"
    /\ run_pc' = "exited"
    /\ UNCHANGED <<main_pc, exit_by, fs_pc, timer_left, sig_fs, sig_dp, interrupts, built,
                   worker, caught, log, tok_vars, par_vars, strip_vars, send_vars,
                   disp_vars, hand_vars>>

(***************************************************************************)
(* src/bot.rs: remove_si and send_message_retrying, several invocations at *)
(* a time: each has its own locals, and shares the Bot and the constants   *)
(***************************************************************************)
\* the invocations the dispatcher runs at the same time
Invocations == {"a", "b"}

\* what the calls of bot.send_message of one invocation return, in order:
\* `fails` errors of kind `kind`, then `final` for every later call
Script(k, q, f) == [fails |-> k, kind |-> q, final |-> f]

Scripts ==
    { Script(k, q, f) : k \in {0, 1, RETRY_LIMIT}, q \in {"Network", "RetryAfter"},
                        f \in {"Ok", "Api"} }

\* the n-th bot.send_message(..).await of an invocation under its script
Outcome(sc, n) ==
    IF n <= sc.fails
    THEN Err([kind |-> sc.kind, delay |-> IF sc.kind = "RetryAfter" THEN 1 ELSE 0, at |-> n])
    ELSE IF sc.final = "Ok" THEN Ok
    ELSE Err([kind |-> sc.final, delay |-> 0, at |-> n])

\* a message without text, and one with two links that carry si
ParMessages ==
    { [chat |-> "c1", id |-> "m1", text |-> None, entities |-> None],
      [chat |-> "c2", id |-> "m2", text |-> Some(MessageText),
       entities |-> Some(<<Entity("Url", 2, 3, NoUrl), Entity("Url", 6, 4, NoUrl)>>)] }

\* the locals of one invocation
Invocation(m, sc) ==
    [msg |-> m, script |-> sc, pc |-> "start", text |-> None, i |-> 0, last_err |-> None,
     cur |-> None, attempts |-> 0, result |-> None, overlapped |-> FALSE]

\* one counter of iterations for all the invocations
Budget_Shared(v, h) == v["a"].i + v["b"].i

\* the iterations of `for _ in 0..RETRY_LIMIT` this invocation has used
Budget(v, h) == v[h].i

\* another invocation is between its first and its last step
OthersRunning(h) == \E o \in Invocations \ {h} : inv[o].pc \in {"loop", "sleep"}

Step(h, r) == inv' = [inv EXCEPT ![h] = [r EXCEPT !.overlapped = @ \/ OthersRunning(h)]]

\* remove_si up to the call of send_message_retrying, or its early return
ParStart(h) ==
    /\ inv[h].pc = "start"
    /\ LET response == Response(FilterMapStrip(message_url_iterator(inv[h].msg)))
       IN  IF IsSome(response)
           THEN Step(h, [inv[h] EXCEPT !.text = response, !.pc = "loop"])
           ELSE Step(h, [inv[h] EXCEPT !.pc = "done", !.result = Some(Ok)])
    /\ UNCHANGED <<tok_vars, run_vars, strip_vars, send_vars, disp_vars, hand_vars>>

\* the head of the for loop and one iteration up to its first await result
ParAttempt(h) ==
    /\ inv[h].pc = "loop"
    /\ LET me_ == inv[h]
           n == me_.attempts + 1
           result == Outcome(me_.script, n)
       IN  IF ~LoopRuns(Budget(inv, h))
           THEN Step(h, [me_ EXCEPT !.pc = "done", !.result = Some(AfterLoop(me_.last_err))])
           ELSE IF result.ok
           THEN Step(h, [me_ EXCEPT !.attempts = n, !.pc = "done",
                                    !.result = Some(AfterLoop(me_.last_err))])
           ELSE IF IsTransient(result.err)
           THEN Step(h, [me_ EXCEPT !.attempts = n, !.last_err = Some(result.err),
                                    !.i = @ + 1])
           ELSE IF IsRetryAfter(result.err)
           THEN Step(h, [me_ EXCEPT !.attempts = n, !.cur = Some(result.err), !.pc = "sleep"])
           ELSE Step(h, [me_ EXCEPT !.attempts = n, !.pc = "done", !.result = Some(result)])
    /\ UNCHANGED <<tok_vars, run_vars, strip_vars, send_vars, disp_vars, hand_vars>>

\* tokio::time::sleep(..).await is over: the end of the iteration
ParWake(h) ==
    /\ inv[h].pc = "sleep"
    /\ Step(h, [inv[h] EXCEPT !.last_err = inv[h].cur, !.cur = None, !.i = @ + 1,
                              !.pc = "loop"])
    /\ UNCHANGED <<tok_vars, run_vars, strip_vars, send_vars, disp_vars, hand_vars>>

(***************************************************************************)
(* Specifications, one for each component.                                 *)
(***************************************************************************)
ExtIdle == HandIdle /\ SysIdle

InitStrip ==
    /\ url \in Urls /\ stripped = None /\ again = None /\ strip_pc = "input"
    /\ SendIdle /\ DispIdle /\ ExtIdle

NextStrip == Strip \/ StripAgain

SpecStrip == InitStrip /\ [][NextStrip]_vars

InitSend == StripIdle /\ SendStart /\ DispIdle /\ ExtIdle

NextSend == SendAttempt \/ SleepTick \/ SleepDone

SpecSend == InitSend /\ [][NextSend]_vars

InitDispatch == StripIdle /\ SendIdle /\ DispIdle /\ ExtIdle

NextDispatch == Dispatch

SpecDispatch == InitDispatch /\ [][NextDispatch]_vars

InitHandle ==
    /\ StripIdle /\ SendIdle /\ DispIdle /\ SysIdle
    /\ msg \in Messages /\ h_pc = "start" /\ extracted = <<>> /\ sent = <<>>
    /\ h_result = None

NextHandle == HandleMessage \/ HandleSendReturns

SpecHandle == InitHandle /\ [][NextHandle]_vars

InitToken ==
    /\ StripIdle /\ SendIdle /\ DispIdle /\ HandIdle /\ RunIdle /\ ParIdle
    /\ environ \in Environments /\ dotenv_file \in DotenvFiles
    /\ tok_pc = "start" /\ token = None

NextToken == LoadToken \/ MainFails \/ MainSpawns

SpecToken == InitToken /\ [][NextToken]_vars

\* the process after main spawned run_bot with a token of the environment
InitRun ==
    /\ StripIdle /\ SendIdle /\ DispIdle /\ HandIdle /\ ParIdle
    /\ environ = <<EnvVar(TOKEN_KEY, "t-env", TRUE)>> /\ dotenv_file = NoFile
    /\ tok_pc = "spawned" /\ token = Some(TokenOk("t-env"))
    /\ main_pc = "select" /\ exit_by = "" /\ fs_pc = "first"
    /\ timer_left = FORCED_SHUTDOWN_TIMEOUT /\ sig_fs = FALSE /\ sig_dp = FALSE
    /\ interrupts = 0 /\ run_pc = "dispatching" /\ built = 1 /\ disp_state = "Running"
    /\ worker = "none" /\ caught = None /\ log = <<>>

NextRun ==
    \/ Interrupt \/ FirstInterrupt \/ SecondInterrupt \/ TimerTick \/ TimeoutExpires
    \/ MainReturns \/ CtrlCHandler \/ UpdateArrives \/ HandlerCompletes
    \/ DispatchPanics \/ RestartDispatcher \/ DispatchReturns

SpecRun == InitRun /\ [][NextRun]_vars

\* the runtime polls a task that can make a step, and its timer runs; the
\* interrupts, the updates, the panics and the end of a handler are not
\* required to happen
FairRun ==
    /\ WF_vars(FirstInterrupt) /\ WF_vars(SecondInterrupt) /\ WF_vars(TimerTick)
    /\ WF_vars(TimeoutExpires) /\ WF_vars(MainReturns) /\ WF_vars(CtrlCHandler)
    /\ WF_vars(RestartDispatcher) /\ WF_vars(DispatchReturns)

SpecRunFair == SpecRun /\ FairRun

InitPar ==
    /\ StripIdle /\ SendIdle /\ DispIdle /\ HandIdle /\ TokIdle /\ RunIdle
    /\ inv \in [Invocations -> { Invocation(m, sc) : m \in ParMessages, sc \in Scripts }]

NextPar == \E h \in Invocations : ParStart(h) \/ ParAttempt(h) \/ ParWake(h)

SpecPar == InitPar /\ [][NextPar]_vars

(***************************************************************************)
(* Vocabulary of the properties.                                           *)
(***************************************************************************)
\* the host is exactly one of the three recognized domains
RecognizedHost(u) ==
    \E n \in {"youtube.com", "www.youtube.com", "youtu.be"} :
        u.host = <<[kind |-> "Domain", name |-> n]>>

\* the keys of the query's parameters, as form-urlencoded text reads them
Keys(u) == { query_pairs(u)[k].key : k \in 1..Len(query_pairs(u)) }

SiKey == <<"s", "i">>

RECURSIVE Split(_, _)
\* the pieces of s between occurrences of the character c
Split(s, c) ==
    LET k == IndexOf(s, c)
    IN  IF k = 0 THEN <<s>>
        ELSE <<SubSeq(s, 1, k - 1)>> \o Split(SubSeq(s, k + 1, Len(s)), c)

\* the text of a pair before its first `=`
RawKey(seg) ==
    IF IndexOf(seg, "=") = 0 THEN seg ELSE SubSeq(seg, 1, IndexOf(seg, "=") - 1)

\* the pairs of the query as written, those with key `si` left out
RetainedRaw(u) ==
    IF ~IsSome(u.query) THEN <<>>
    ELSE SelectSeq(Split(Unwrap(u.query), "&"),
                   LAMBDA seg : seg # <<>> /\ decode(RawKey(seg)) # SiKey)

\* the query, as written, has a pair that begins `si=`
WritesSi(u) ==
    /\ IsSome(u.query)
    /\ \E k \in 1..Len(Split(Unwrap(u.query), "&")) :
           StartsWith(Split(Unwrap(u.query), "&")[k], <<"s", "i", "=">>)

StripDone == strip_pc \in {"stripped", "again"}

(***************************************************************************)
(* Properties of url_without_si, under SpecStrip.                          *)
(***************************************************************************)
\* C2: whenever url_without_si returns a Url, url_without_si of that Url
\* returns None.
C2_StripIdempotent == strip_pc = "again" => again = None

\* C3: for a recognized host whose query writes an `si=` pair and holds other
\* parameters too, url_without_si returns the Url with the same scheme, host and
\* path whose query parameters are exactly the input's parameters with a key
\* other than `si`, in their order.
C3_OthersRetained ==
    (StripDone /\ RecognizedHost(url) /\ WritesSi(url) /\ Keys(url) \ {SiKey} # {})
    => /\ IsSome(stripped)
       /\ Unwrap(stripped).scheme = url.scheme
       /\ Unwrap(stripped).host = url.host
       /\ Unwrap(stripped).path = url.path
       /\ query_pairs(Unwrap(stripped)) = FilterNotSi(query_pairs(url))

\* C4: when url_without_si writes a query, it is the retained pairs of the
\* input, each character for character as the input wrote it, joined by `&`.
C4_ExactEncoding ==
    (StripDone /\ IsSome(stripped) /\ RetainedRaw(url) # <<>>)
    => Unwrap(stripped).query = Some(Join(RetainedRaw(url), "&"))

\* C8: for a Url whose host is not exactly one of the recognized domains,
\* url_without_si returns None, whatever the query.
C8_ForeignHostNone ==
    (StripDone /\ ~RecognizedHost(url)) => stripped = None

C8_Witness ==
    /\ strip_pc = "stripped" /\ stripped = None
    /\ url.host = Domain("notyoutube.com")
    /\ url.query = Some(<<"s", "i", "=", "a">>)

\* C9: for a recognized host whose query has no parameter named `si`,
\* url_without_si returns None.
C9_NoSiNone ==
    (StripDone /\ RecognizedHost(url) /\ SiKey \notin Keys(url)) => stripped = None

C9_Witness ==
    /\ strip_pc = "stripped" /\ stripped = None
    /\ url.host = Domain("www.youtube.com")
    /\ url.query = Some(<<"p", "s", "i", "=", "a", "&", "s", "i", "p", "=", "a",
                          "&", "v", "=", "s", "i">>)

\* C10 as stated: for a recognized host whose query parameters all have the
\* key `si`, url_without_si returns the same Url with no query.
C10_OnlySiCleared ==
    (StripDone /\ RecognizedHost(url) /\ Keys(url) = {SiKey})
    => stripped = Some([url EXCEPT !.query = None])

\* C10 amended: for a recognized host whose query writes an `si=` pair and
\* whose parameters all have the key `si`, url_without_si returns the same Url
\* with no query.
C10_WrittenOnlySiCleared ==
    (StripDone /\ RecognizedHost(url) /\ WritesSi(url) /\ Keys(url) = {SiKey})
    => stripped = Some([url EXCEPT !.query = None])

C10_Witness ==
    /\ strip_pc = "stripped"
    /\ url.host = Domain("www.youtube.com")
    /\ url.query = Some(<<"s", "i", "=", "a", "&", "s", "i", "=", "a">>)
    /\ IsSome(stripped) /\ Unwrap(stripped).query = None
    /\ Unwrap(stripped).fragment = Some("t")

(***************************************************************************)
(* Properties of send_message_retrying, under SpecSend.                    *)
(***************************************************************************)
\* C1: when an attempt succeeds, whatever retryable failures came before it,
\* send_message_retrying returns Ok.
C1_SuccessReturnsOk ==
    (send_pc = "returned" /\ delivered > 0) => send_result = Some(Ok)

\* C6: one call makes at most 20 attempts; every attempt, failed with a
\* transient error or with a rate limit, uses up one iteration of the same loop.
C6_AttemptsBounded ==
    /\ attempts <= 20
    /\ n_transient + n_rate <= 20
    /\ n_transient + n_rate = send_i + (IF send_pc = "sleep" THEN 1 ELSE 0)

C6_Witness ==
    /\ send_pc = "returned" /\ attempts = 20
    /\ n_transient > 0 /\ n_rate > 0 /\ delivered = 0 /\ fatal_seen = None

\* C7: once an attempt has failed with an error that is neither transient nor a
\* rate limit, the call has returned, with that error, and that attempt was
\* the last one.
C7_FatalReturnsAtOnce ==
    IsSome(fatal_seen)
    => /\ send_pc = "returned"
       /\ send_result = Some(Err(Unwrap(fatal_seen)))
       /\ attempts = Unwrap(fatal_seen).at

C7_Witness ==
    /\ IsSome(fatal_seen) /\ Unwrap(fatal_seen).at = 20
    /\ n_transient > 0 /\ n_rate > 0
    /\ send_result = Some(Err(Unwrap(fatal_seen)))

\* C13: when all 20 attempts fail with transient or rate-limit errors, the call
\* returns an error, and it is the error the 20th attempt returned.
C13_ExhaustedReturnsLast ==
    (send_pc = "returned" /\ n_transient + n_rate = 20)
    => /\ IsSome(send_result)
       /\ ~Unwrap(send_result).ok
       /\ Unwrap(send_result).err.at = 20
       /\ Unwrap(send_result).err.kind \in {"Network", "Io", "RetryAfter"}

C13_Witness ==
    /\ send_pc = "returned" /\ n_transient + n_rate = 20 /\ n_transient = 19
    /\ last_err # None /\ Unwrap(last_err).kind = "RetryAfter"
    /\ send_result = Some(Err(Unwrap(last_err)))

\* C14: an attempt that follows a rate-limit failure with delay d is made after
\* a sleep of exactly d seconds, an attempt that follows a transient failure is
\* made with no sleep, and during the sleep the call is not in its loop.
C14_SleepThenRetry ==
    [][ /\ (attempts' = attempts + 1 /\ IsSome(last_err))
           => /\ Unwrap(last_err).at = attempts
              /\ slept = (IF Unwrap(last_err).kind = "RetryAfter"
                          THEN Unwrap(last_err).delay ELSE 0)
        /\ (send_pc = "sleep" /\ sleep_left > 0) => attempts' = attempts ]_vars

C14_Witness ==
    /\ send_pc = "loop" /\ attempts = 3 /\ n_transient = 2
    /\ last_err # None /\ Unwrap(last_err).kind = "RetryAfter"
    /\ Unwrap(last_err).delay = 2 /\ slept = 2

\* C20: after an attempt has succeeded the call makes no further attempt: a
\* call delivers at most once, and having delivered it has returned.
C20_NoAttemptAfterSuccess ==
    /\ delivered <= 1
    /\ delivered = 1 => send_pc = "returned"

C20_Witness ==
    /\ delivered = 1 /\ attempts = 20 /\ send_pc = "returned" /\ n_rate > 0

(***************************************************************************)
(* Properties of the routing, under SpecDispatch.                          *)
(***************************************************************************)
\* C5: a message that replies to a message of the bot itself goes to
\* thank_react, every other message goes to remove_si.
C5_RepliesToBotGoToThankReact ==
    \A k \in 1..Len(routed) :
        routed[k].update.kind = "Message"
        => routed[k].handler =
               IF thank_react_filter(me, routed[k].update.message)
               THEN "thank_react" ELSE "remove_si"

(***************************************************************************)
(* Properties of message_url_iterator and remove_si, under SpecHandle.     *)
(***************************************************************************)
HandleDone == h_pc \in {"sending", "done"}

MsgEntities == IF IsSome(msg.text) /\ IsSome(msg.entities) THEN Unwrap(msg.entities) ELSE <<>>

\* the slice of a plain-URL entity, None when out of bounds
SliceOf(e) == Get(Unwrap(msg.text), e.offset, e.offset + e.length)

\* the entity's slice parses as it stands
ParsesDirectly(e) == IsSome(SliceOf(e)) /\ UrlParse(Unwrap(SliceOf(e))).ok

\* the entity's slice parses with `https://` put in front
ParsesPrefixed(e) ==
    IsSome(SliceOf(e)) /\ UrlParse(<<Sch("https")>> \o Unwrap(SliceOf(e))).ok

\* the entity's slice has no scheme
LacksScheme(e) ==
    IsSome(SliceOf(e)) /\ UrlParse(Unwrap(SliceOf(e))).err = "RelativeUrlWithoutBase"

\* the Url an entity stands for
UrlOf(e) ==
    IF e.kind = "TextLink" THEN e.url
    ELSE IF ParsesDirectly(e) THEN UrlParse(Unwrap(SliceOf(e))).url
    ELSE UrlParse(<<Sch("https")>> \o Unwrap(SliceOf(e))).url

\* extracted is the Urls of the entities whose index is in idx, in entity order
EmitsExactly(idx) ==
    /\ Len(extracted) = Cardinality(idx)
    /\ \A k \in idx :
           extracted[Cardinality({i \in idx : i <= k})] = UrlOf(MsgEntities[k])

\* C17 as stated: the extractor emits, in entity order, the Url of each text
\* link and of each plain-URL entity whose slice is within the text and parses
\* directly or with `https://` in front, and nothing else.
C17_EmitsEachParseable ==
    HandleDone
    => EmitsExactly({ k \in 1..Len(MsgEntities) :
                        \/ MsgEntities[k].kind = "TextLink"
                        \/ /\ MsgEntities[k].kind = "Url"
                           /\ (ParsesDirectly(MsgEntities[k])
                               \/ ParsesPrefixed(MsgEntities[k])) })

\* C17 amended: the extractor emits, in entity order, the Url of each text link
\* and of each plain-URL entity whose slice is within the text and parses
\* directly or, when it has no scheme, with `https://` in front, and nothing else.
C17_EmitsEachParsed ==
    HandleDone
    => EmitsExactly({ k \in 1..Len(MsgEntities) :
                        \/ MsgEntities[k].kind = "TextLink"
                        \/ /\ MsgEntities[k].kind = "Url"
                           /\ (ParsesDirectly(MsgEntities[k])
                               \/ (LacksScheme(MsgEntities[k])
                                   /\ ParsesPrefixed(MsgEntities[k]))) })

\* an out-of-bounds entity first, then a link without scheme, which is emitted
C17_Witness ==
    /\ HandleDone /\ Len(MsgEntities) = 2
    /\ MsgEntities[1] = Entity("Url", 9, 4, NoUrl)
    /\ MsgEntities[2] = Entity("Url", 2, 3, NoUrl)
    /\ Len(extracted) = 1
    /\ extracted[1].host = Domain("youtu.be") /\ extracted[1].scheme = "https"

\* the Urls url_without_si keeps, in the order of their entities
Surviving == FilterMapStrip(extracted)

\* C11: when n >= 1 urls survive the stripper, remove_si makes one send call, to
\* the chat of the message and in reply to its id; the text is the header line,
\* singular for n = 1 and plural for n > 1, then the n urls, one a line, in
\* entity order.
C11_ReplyText ==
    (HandleDone /\ Surviving # <<>>)
    => /\ Len(sent) = 1
       /\ sent[1].to = msg.chat
       /\ sent[1].reply_to = msg.id
       /\ Split(sent[1].text, "\n") =
              << <<IF Len(Surviving) = 1 THEN "The link without tracking:"
                   ELSE "The links without tracking:">> >>
              \o [k \in 1..Len(Surviving) |-> as_str(Surviving[k])]
              \o << <<>> >>

C11_Witness ==
    /\ h_pc = "done" /\ Len(sent) = 1 /\ Len(Surviving) = 2
    /\ Surviving[1].path = "/y" /\ Surviving[2].path = "/watch"
    /\ sent[1].text[1] = "The links without tracking:"

\* C12: when no url survives the stripper, remove_si makes no send call and
\* returns Ok.
C12_NothingToSend ==
    (HandleDone /\ Surviving = <<>>)
    => /\ sent = <<>>
       /\ h_pc = "done"
       /\ h_result = Some(Ok)

C12_Witness ==
    /\ h_pc = "done" /\ sent = <<>> /\ h_result = Some(Ok)
    /\ Len(MsgEntities) = 2
    /\ MsgEntities[1] = Entity("Url", 10, 1, NoUrl)
    /\ MsgEntities[2].kind = "TextLink"
    /\ Len(extracted) = 1 /\ extracted[1].host = Domain("example.org")

(***************************************************************************)
(* Properties of load_token and the start of main, under SpecToken         *)
(***************************************************************************)
TokenLoaded == tok_pc \in {"loaded", "spawned", "failed"}

\* the variable is set in the process environment
EnvHasToken == \E i \in 1..Len(environ) : environ[i].key = TOKEN_KEY /\ environ[i].unicode

EnvToken == environ[CHOOSE i \in 1..Len(environ) : environ[i].key = TOKEN_KEY].value

\* the `.env` file holds a line of the key
FileHasToken ==
    /\ dotenv_file.found = "found"
    /\ \E i \in 1..Len(dotenv_file.lines) :
         dotenv_file.lines[i].ok /\ dotenv_file.lines[i].key = TOKEN_KEY

FileToken ==
    LET ls == dotenv_file.lines
        first == CHOOSE i \in 1..Len(ls) :
                    /\ ls[i].ok /\ ls[i].key = TOKEN_KEY
                    /\ \A j \in 1..(i - 1) : ~(ls[j].ok /\ ls[j].key = TOKEN_KEY)
    IN  ls[first].value

\* main ended with the error and run_bot was never spawned
FatalBeforeLoop ==
    /\ Unwrap(token).kind # "Ok"
    /\ tok_pc # "spawned" /\ run_pc = "off" /\ built = 0
    /\ tok_pc = "failed" => main_pc = "returned" /\ exit_by = "error"

\* C19: the token is the environment's when the variable is set there,
\* whatever the `.env` file holds; otherwise the `.env` file's; when neither
\* has it, startup fails and the dispatch loop is never started.
C19_TokenSource ==
    TokenLoaded =>
        /\ EnvHasToken => token = Some(TokenOk(EnvToken))
        /\ ~EnvHasToken /\ FileHasToken => token = Some(TokenOk(FileToken))
        /\ ~EnvHasToken /\ ~FileHasToken => FatalBeforeLoop

(***************************************************************************)
(* Properties of run_bot and main, under SpecRun and SpecRunFair           *)
(***************************************************************************)
\* run_bot logged the panic it caught and awaits dispatch() of a Dispatcher
\* built after it
Restarted ==
    /\ run_pc' = "dispatching"
    /\ log' = Append(log, IF Unwrap(caught).type = "other" THEN "" ELSE Unwrap(caught).text)
    /\ built' = built + 1
    /\ disp_state' = "Running" /\ worker' = "none" /\ ~sig_dp'

\* C15: a panic escaping dispatch() does not end the loop of run_bot: the
\* step that follows a caught panic logs it and leaves the loop dispatching
\* on a Dispatcher built anew, however many panics came before, and that step
\* is taken unless the process ends first; the loop is left only from a
\* dispatch() that returned without a panic.
C15_PanicRestarts ==
    /\ [][(run_pc = "caught" /\ run_pc' # "caught") => Restarted]_vars
    /\ [][(run_pc # "exited" /\ run_pc' = "exited")
            => run_pc = "dispatching" /\ caught = None /\ disp_state = "ShuttingDown"]_vars
    /\ (run_pc = "caught") ~> (run_pc = "dispatching" \/ main_pc = "returned")

\* two panics in a row, the second with a payload that is not a string
C15_Witness ==
    /\ run_pc = "dispatching" /\ built = 3 /\ worker = "none"
    /\ log = <<"TX is dead", "">>

\* C16: once an interrupt was delivered the process ends: main returns on
\* the end of run_bot, on a second interrupt or when the ten seconds counted
\* from the first interrupt are over, whether or not the handler in flight
\* ever returns.
C16_InterruptTerminates == (interrupts >= 1) ~> (main_pc = "returned")

\* ended by the timeout, one interrupt, the handler still in flight
C16_Witness ==
    /\ main_pc = "returned" /\ exit_by = "timeout" /\ interrupts = 1
    /\ worker = "busy" /\ timer_left = 0 /\ run_pc = "dispatching"

(***************************************************************************)
(* Properties of concurrent invocations, under SpecPar                     *)
(***************************************************************************)
\* send_message_retrying run alone under a script: the calls made, the result
RECURSIVE SoloSend(_, _, _, _)
SoloSend(sc, k, le, n) ==
    IF k >= RETRY_LIMIT THEN [attempts |-> n, result |-> AfterLoop(le)]
    ELSE LET r == Outcome(sc, n + 1)
         IN  IF r.ok THEN [attempts |-> n + 1, result |-> AfterLoop(le)]
             ELSE IF r.err.kind \in {"Network", "Io", "RetryAfter"}
             THEN SoloSend(sc, k + 1, Some(r.err), n + 1)
             ELSE [attempts |-> n + 1, result |-> r]

\* remove_si run alone on a message under a script
Solo(m, sc) ==
    LET response == Response(FilterMapStrip(message_url_iterator(m)))
        sent_ == SoloSend(sc, 0, None, 0)
    IN  IF IsSome(response)
        THEN [text |-> response, attempts |-> sent_.attempts, result |-> sent_.result]
        ELSE [text |-> None, attempts |-> 0, result |-> Ok]

\* C18: whatever the interleaving, an invocation that returned sent the reply
\* text, made the number of bot.send_message calls and returned the result of
\* running alone under the same send outcomes; meanwhile it has made no more
\* calls than alone, and its loop counter counts its own failed calls only.
C18_Isolated ==
    \A h \in Invocations :
        LET alone == Solo(inv[h].msg, inv[h].script)
        IN  /\ inv[h].attempts <= alone.attempts
            /\ inv[h].pc \in {"loop", "sleep"} => inv[h].text = alone.text
            /\ inv[h].pc = "loop" => inv[h].i = inv[h].attempts
            /\ inv[h].pc = "done" =>
                 /\ inv[h].text = alone.text
                 /\ inv[h].attempts = alone.attempts
                 /\ inv[h].result = Some(alone.result)

\* both returned after steps taken while the other was running: one used up
\* its RETRY_LIMIT calls, the other was delivered by its second call
C18_Witness ==
    /\ \A h \in Invocations : inv[h].pc = "done" /\ inv[h].overlapped
    /\ inv["a"].attempts = RETRY_LIMIT /\ ~Unwrap(inv["a"].result).ok
    /\ inv["b"].attempts = 2 /\ inv["b"].script.final = "Ok"

(***************************************************************************)
(* Properties of the shutdown of the dispatch loop, under SpecRunFair      *)
(***************************************************************************)
\* the first interrupt was received and the dispatcher left Running for it
ShutdownBegun == interrupts >= 1 /\ fs_pc # "first" /\ disp_state = "ShuttingDown"

\* C21: once the first interrupt moved the loop to ShuttingDown it does not
\* return to Running: no Dispatcher is built and no update is handed to a
\* handler, also when a panic escapes dispatch() during the shutdown.
C21_NoReturnToRunning ==
    [][ShutdownBegun =>
          /\ disp_state' # "Running"
          /\ built' = built
          /\ ~(worker = "none" /\ worker' = "busy")]_vars

====
